---------------------------- MODULE Spec2Model ----------------------------
(***************************************************************************)
(* Lazy Laurent series (src/sage/rings/lazy_laurent_series.py).            *)
(*                                                                         *)
(* The heap is a sequence of auxiliary nodes (LazyLaurentSeries_aux and    *)
(* its subclasses); a series is the index of its node.  Coefficients are   *)
(* integers (the base ring ZZ).  A coefficient request threads the heap    *)
(* through the recursive evaluation, because every request memoizes into   *)
(* the caches of the nodes it visits.                                      *)
(***************************************************************************)
EXTENDS Integers, Sequences, FiniteSets, TLC

VARIABLES
    heap,      \* Seq of nodes: the objects allocated so far
    sparse,    \* P._sparse: the cache strategy of the ring
    series,    \* the nodes of the series the caller holds
    ret,       \* the outcome of the last public operation
    seen       \* one coefficient request the caller remembers: node, index, value

vars == <<heap, sparse, series, ret, seen>>

-----------------------------------------------------------------------------
(* Bounds of the model *)

\* largest coefficient index a request asks for
MaxIdx == 1
\* largest coefficient index requested in the Catalan scenario
MaxCat == 10
\* largest index a valuation scan inspects before it is taken not to return
MaxScan == 6
\* largest number of nodes an operation may leave on the heap
MaxHeap == 7
\* largest number of series the caller holds at a time
MaxSeries == 4
\* how far beyond the coefficients already cached a single request may reach
MaxJump == 4

\* smallest coefficient index a request asks for, as an offset below zero
MinOff == 1

Idx == (0 - MinOff)..MaxIdx

-----------------------------------------------------------------------------
(* Laurent polynomials: functions from the support to nonzero integers *)

PolyGet(p, n) == IF n \in DOMAIN p THEN p[n] ELSE 0

PolyNorm(f) == [e \in {x \in DOMAIN f : f[x] # 0} |-> f[e]]

PolyZero == PolyNorm([e \in {} |-> 0])

PolyIsZero(p) == DOMAIN p = {}

SetMax(S) == CHOOSE x \in S : \A y \in S : y <= x

SetMin(S) == CHOOSE x \in S : \A y \in S : x <= y

PolyDegree(p) == SetMax(DOMAIN p)

PolyValuation(p) == SetMin(DOMAIN p)

PolyMono(c, e) == PolyNorm([x \in {e} |-> c])

PolyOne == PolyMono(1, 0)

PolyGen == PolyMono(1, 1)

PolyAdd(p, q) == PolyNorm([e \in DOMAIN p \cup DOMAIN q |-> PolyGet(p, e) + PolyGet(q, e)])

PolyNeg(p) == [e \in DOMAIN p |-> 0 - p[e]]

PolySub(p, q) == PolyAdd(p, PolyNeg(q))

PolyScale(c, p) == PolyNorm([e \in DOMAIN p |-> c * p[e]])

RECURSIVE SumOver(_, _)
SumOver(S, f) ==
    IF S = {} THEN 0
    ELSE LET x == CHOOSE y \in S : TRUE IN f[x] + SumOver(S \ {x}, f)

PolyMul(p, q) ==
    LET E == {a + b : a \in DOMAIN p, b \in DOMAIN q}
    IN PolyNorm([e \in E |->
          SumOver({a \in DOMAIN p : e - a \in DOMAIN q},
                  [a \in DOMAIN p |-> p[a] * PolyGet(q, e - a)])])

\* R([c]*k).shift(d): the polynomial c*z^d + ... + c*z^(d+k-1)
PolyRun(c, d, k) == PolyNorm([e \in d..(d + k - 1) |-> c])

-----------------------------------------------------------------------------
(* Coefficient functions handed to the ring constructor *)

Fns == {"one", "id", "alt"}

Fn(f, n) ==
    CASE f = "one" -> 1
      [] f = "id" -> n
      [] f = "alt" -> IF n % 2 = 0 THEN 0 ELSE 1
      [] OTHER -> 0

\* functions handed to map_coefficients
Maps == {"double", "square"}

MapFn(f, c) == IF f = "double" THEN 2 * c ELSE c * c

-----------------------------------------------------------------------------
(* Nodes *)

NoGen == [st |-> "none", n |-> 0]
FreshGen == [st |-> "fresh", n |-> 0]

Blank ==
    [kind |-> "zero", av |-> 0, offset |-> 0, cache |-> <<>>, gen |-> NoGen,
     nev |-> <<>>, left |-> 0, right |-> 0, scalar |-> 0, fn |-> "",
     target |-> 0, poly |-> PolyZero, degree |-> 0, constant |-> 0,
     fv |-> 0, gv |-> 0, pos |-> <<>>, neg |-> <<>>, ainv |-> 0]

\* LazyLaurentSeries_aux.__init__ and LazyLaurentSeries_inexact.__init__
Inexact(kind, sp, a) ==
    [Blank EXCEPT !.kind = kind, !.av = a, !.offset = a,
                  !.gen = IF sp THEN NoGen ELSE FreshGen]

IsInexact(nd) == nd.kind \notin {"zero", "eg"}

ZeroNode == Blank

\* LazyLaurentSeries_eventually_geometric.__init__ with the degree given
EGNode(p, c, d) ==
    [Blank EXCEPT !.kind = "eg", !.poly = p, !.constant = c, !.degree = d,
                  !.av = IF PolyIsZero(p) THEN d ELSE PolyValuation(p)]

\* LazyLaurentSeries_eventually_geometric.__getitem__
EGGet(nd, n) == IF n >= nd.degree THEN nd.constant ELSE PolyGet(nd.poly, n)

CFNode(f, sp, a) == [Inexact("cf", sp, a) EXCEPT !.fn = f]

UninitNode(sp, a) == Inexact("uninit", sp, a)

BinNode(kind, l, r, sp, a) == [Inexact(kind, sp, a) EXCEPT !.left = l, !.right = r]

UnNode(kind, x, sp, a) == [Inexact(kind, sp, a) EXCEPT !.left = x]

-----------------------------------------------------------------------------
(* Threaded evaluation.  s = [h, busy, act, deep]: the heap, the dense nodes *)
(* whose generator is executing, the sparse (node, index) pairs being       *)
(* computed, and whether a placeholder was read, while one of its own       *)
(* coefficients was being computed, otherwise than from its cache at a      *)
(* lower index.                                                             *)

St(h) == [h |-> h, busy |-> {}, act |-> {}, deep |-> FALSE]

\* a read of index n of the sparse placeholder id that is nested in the
\* computation of one of its own coefficients: at or above the index being
\* computed (hit) or not in the cache (miss)
Nested(s, id, n, hit) ==
    /\ s.h[id].kind = "uninit"
    /\ \E p \in s.act : p[1] = id /\ (hit => n >= p[2])

Ret(s, v) == [s |-> s, ok |-> TRUE, v |-> v, err |-> ""]

Err(s, e) == [s |-> s, ok |-> FALSE, v |-> 0, err |-> e]

\* sequencing: an exception in r ends the operation, a value goes on to F
Bind(r, F(_)) == IF r.ok THEN F(r) ELSE r

Bump(f, n) == IF n \in DOMAIN f THEN [f EXCEPT ![n] = @ + 1] ELSE (n :> 1) @@ f

\* allocate a node; v is its index
Alloc(s, nd) == Ret([s EXCEPT !.h = Append(@, nd)], Len(s.h) + 1)

\* LLS_mul.__init__
NewMul(s, l, r) ==
    Alloc(s, BinNode("mul", l, r, sparse, s.h[l].av + s.h[r].av))

\* the index a fresh generator starts from: iterate_coefficients reads
\* self._offset, except for the placeholder and the composition, which read
\* self._approximate_valuation when the generator first runs
GenStart(nd) == IF nd.kind \in {"uninit", "comp"} THEN nd.av ELSE nd.offset

FloorDiv(a, b) == a \div b

RECURSIVE Get(_, _, _), Formula(_, _, _), NextIter(_, _), Extend(_, _, _),
          MulLoop(_, _, _, _, _, _), InvLoop(_, _, _, _, _, _),
          GrowPos(_, _, _), CompLoop(_, _, _, _, _, _, _)

\* the sparse branch without  self._cache[n] = c
SparseForget(r, id, n) ==
    IF r.ok
    THEN Ret([r.s EXCEPT !.act = @ \ {<<id, n>>}, !.h[id].nev = Bump(@, n)], r.v)
    ELSE Err([r.s EXCEPT !.act = @ \ {<<id, n>>}], r.err)

\* the sparse branch of __getitem__ after get_coefficient(n) returned r:
\* self._cache[n] = c
SparseStore(r, id, n) ==
    IF r.ok
    THEN Ret([r.s EXCEPT !.act = @ \ {<<id, n>>},
                         !.h[id].cache = (n :> r.v) @@ @,
                         !.h[id].nev = Bump(@, n)], r.v)
    ELSE Err([r.s EXCEPT !.act = @ \ {<<id, n>>}], r.err)

\* the dense branch of __getitem__ after the cache was extended: c = self._cache[i]
DenseRead(r, id, i) == IF r.ok THEN Ret(r.s, r.s.h[id].cache[i + 1]) ELSE r

\* LazyLaurentSeries_inexact.__getitem__ and the closed-form __getitem__s
Get(s, id, n) ==
    CASE s.h[id].kind = "zero" -> Ret(s, 0)
      [] s.h[id].kind = "eg" -> Ret(s, EGGet(s.h[id], n))
      [] n < s.h[id].av -> Ret(s, 0)
      [] s.h[id].gen.st = "none" /\ n \in DOMAIN s.h[id].cache ->
            Ret([s EXCEPT !.deep = @ \/ Nested(s, id, n, TRUE)], s.h[id].cache[n])
      [] s.h[id].gen.st = "none" /\ <<id, n>> \in s.act -> Err(s, "RecursionError")
      [] s.h[id].gen.st = "none" ->
            SparseStore(Formula([s EXCEPT !.act = @ \cup {<<id, n>>},
                                          !.deep = @ \/ Nested(s, id, n, FALSE)], id, n),
                        id, n)
      [] n - s.h[id].offset < Len(s.h[id].cache) ->
            Ret(s, s.h[id].cache[n - s.h[id].offset + 1])
      [] OTHER ->
            DenseRead(Extend(s, id, n - s.h[id].offset + 1 - Len(s.h[id].cache)),
                      id, n - s.h[id].offset)

\* self._cache.extend(next(self._iter) for _ in range(a, n+1))
Extend(s, id, cnt) ==
    IF cnt <= 0 THEN Ret(s, 0)
    ELSE LET r == NextIter(s, id)
         IN IF r.ok THEN Extend(r.s, id, cnt - 1) ELSE r

\* next(self._iter) after the generator body produced r for index n0: the
\* value is appended to the cache; an exception leaves the generator finished
IterStore(r, id, n0) ==
    IF r.ok
    THEN Ret([r.s EXCEPT !.busy = @ \ {id},
                         !.h[id].cache = Append(@, r.v),
                         !.h[id].gen = [st |-> "run", n |-> n0 + 1],
                         !.h[id].nev = Bump(@, n0)], r.v)
    ELSE Err([r.s EXCEPT !.busy = @ \ {id}, !.h[id].gen.st = "dead"], r.err)

\* the index the generator produces next
GenIndex(nd) == IF nd.gen.st = "fresh" THEN GenStart(nd) ELSE nd.gen.n

\* next(self._iter): one step of iterate_coefficients
NextIter(s, id) ==
    CASE s.h[id].gen.st = "dead" -> Err(s, "RuntimeError")
      [] id \in s.busy -> Err([s EXCEPT !.h[id].gen.st = "dead"], "ValueError")
      [] OTHER ->
            IterStore(Formula([s EXCEPT !.busy = @ \cup {id}], id, GenIndex(s.h[id])),
                      id, GenIndex(s.h[id]))

\* left[n] + right[n], left[n] - right[n] once left[n] is known
AddRight(l, nd, n) ==
    IF l.ok
    THEN LET r == Get(l.s, nd.right, n)
         IN IF r.ok
            THEN Ret(r.s, IF nd.kind = "add" THEN l.v + r.v ELSE l.v - r.v)
            ELSE r
    ELSE l

\* the coefficient of a unary operator node once series[n] is known
UnaryOf(x, nd) ==
    IF x.ok
    THEN Ret(x.s, CASE nd.kind = "scalar" -> x.v * nd.scalar
                    [] nd.kind = "neg" -> 0 - x.v
                    [] nd.kind = "apply" -> MapFn(nd.fn, x.v)
                    [] OTHER -> x.v)
    ELSE x

\* LLS_composition.get_coefficient for n >= 0, after the negative powers gave a
CompRest(a, id, n) ==
    IF a.ok
    THEN LET nd == a.s.h[id]
             b == IF n = 0 THEN Get(a.s, nd.left, 0) ELSE Ret(a.s, 0)
         IN IF b.ok
            THEN CompLoop(b.s, id, "pos", 1, FloorDiv(n, nd.gv), n, a.v + b.v)
            ELSE b
    ELSE a

\* get_coefficient / the body of iterate_coefficients, per node class
Formula(s, id, n) ==
    CASE s.h[id].kind = "cf" -> Ret(s, Fn(s.h[id].fn, n))
      [] s.h[id].kind = "uninit" /\ s.h[id].target = 0 -> Err(s, "TypeError")
      [] s.h[id].kind = "uninit" -> Get(s, s.h[id].target, n)
      [] s.h[id].kind \in {"add", "sub"} -> AddRight(Get(s, s.h[id].left, n), s.h[id], n)
      [] s.h[id].kind = "mul" ->
            MulLoop(s, s.h[id].left, s.h[id].right, s.h[s.h[id].left].av,
                    n - s.h[s.h[id].right].av, [n |-> n, c |-> 0])
      [] s.h[id].kind \in {"scalar", "neg", "apply"} -> UnaryOf(Get(s, s.h[id].left, n), s.h[id])
      [] s.h[id].kind = "inv" /\ n = s.h[id].av -> Ret(s, s.h[id].ainv)
      [] s.h[id].kind = "inv" -> InvLoop(s, id, s.h[id].av, n, s.h[id].av, 0)
      [] s.h[id].kind = "comp" /\ n < 0 ->
            CompLoop(s, id, "neg", s.h[id].fv, FloorDiv(n, s.h[id].gv), n, 0)
      [] s.h[id].kind = "comp" ->
            CompRest(CompLoop(GrowPos(s, id, FloorDiv(n, s.h[id].gv)), id, "neg",
                              s.h[id].fv, 0 - 1, n, 0), id, n)

\* LLS_mul: c += val * right[n-k] once val = left[k] is known
MulStep(x, l, r, k, hi, a) ==
    CASE ~x.ok -> x
      [] x.v = 0 -> MulLoop(x.s, l, r, k + 1, hi, a)
      [] OTHER ->
            LET y == Get(x.s, r, a.n - k)
            IN IF y.ok
               THEN MulLoop(y.s, l, r, k + 1, hi, [a EXCEPT !.c = @ + x.v * y.v])
               ELSE y

\* the loop over range(lo, hi), one term short
MulLoopShort(s, l, r, k, hi, a) ==
    IF k >= hi THEN Ret(s, a.c) ELSE MulStep(Get(s, l, k), l, r, k, hi, a)

\* LLS_mul: for k in range(lo, hi+1): val = left[k]; if val: c += val*right[n-k]
MulLoop(s, l, r, k, hi, a) ==
    IF k > hi THEN Ret(s, a.c) ELSE MulStep(Get(s, l, k), l, r, k, hi, a)

\* LLS_inv: for k in range(v, n): c += self[k] * series[n - v - k]; -c * ainv
InvLoop(s, id, k, n, v, c) ==
    IF k >= n THEN Ret(s, (0 - c) * s.h[id].ainv)
    ELSE LET x == Get(s, id, k) IN
         IF ~x.ok THEN x
         ELSE LET y == Get(x.s, s.h[id].left, n - v - k) IN
              IF ~y.ok THEN y
              ELSE InvLoop(y.s, id, k + 1, n, v, c + x.v * y.v)

\* LLS_composition: while len(self._pos_powers) <= n // gv: append LLS_mul(...)
GrowPos(s, id, q) ==
    LET nd == s.h[id] IN
    IF Len(nd.pos) >= q THEN s
    ELSE LET m == NewMul(s, nd.pos[Len(nd.pos)], nd.right)
         IN GrowPos([m.s EXCEPT !.h[id].pos = Append(@, m.v)], id, q)

\* LLS_composition: sum(left[i] * powers[|i|][n] for i in range(i, hi+1))
CompLoop(s, id, which, i, hi, n, c) ==
    IF i > hi THEN Ret(s, c)
    ELSE LET nd == s.h[id]
             x == Get(s, nd.left, i)
         IN IF ~x.ok THEN x
            ELSE LET p == IF which = "pos" THEN nd.pos[i] ELSE nd.neg[(0 - i) + 1]
                     y == Get(x.s, p, n)
                 IN IF ~y.ok THEN y
                    ELSE CompLoop(y.s, id, which, i + 1, hi, n, c + x.v * y.v)

-----------------------------------------------------------------------------
(* Public operations on series.  Each takes the threaded state and returns  *)
(* Ret(s', id of the resulting series) or Err(s', exception).                *)

ZeroId == 1

IsEG(nd) == nd.kind = "eg"

IsZero(nd) == nd.kind = "zero"

\* LazyLaurentSeries_eventually_geometric.__init__ called with a degree
NewEG(s, p, c, d) ==
    IF ~PolyIsZero(p) /\ ~(PolyDegree(p) < d) THEN Err(s, "AssertionError")
    ELSE Alloc(s, EGNode(p, c, d))

\* LazyLaurentSeries_eventually_geometric.__init__ called without a degree
NewEGNoDegree(s, p, c) ==
    IF PolyIsZero(p) THEN Err(s, "ValueError")
    ELSE Alloc(s, EGNode(p, c, PolyDegree(p) + 1))

\* LazyLaurentSeries._mul_
SMul(s, a, b) ==
    LET left == s.h[a]
        right == s.h[b]
    IN IF IsZero(left) \/ IsZero(right) THEN Ret(s, ZeroId)
       ELSE IF IsEG(left) /\ left.constant = 0 /\ left.poly = PolyOne THEN Ret(s, b)
       ELSE IF IsEG(left) /\ left.constant = 0 /\ IsEG(right) /\ right.constant = 0
            THEN NewEGNoDegree(s, PolyMul(left.poly, right.poly), left.constant)
       ELSE IF ~IsEG(left) /\ IsEG(right) /\ right.constant = 0 /\ right.poly = PolyOne
            THEN Ret(s, a)
       ELSE NewMul(s, a, b)

\* LLS_add.__init__ / LLS_sub.__init__
NewAddSub(s, kind, l, r) ==
    LET m == IF s.h[l].av <= s.h[r].av THEN s.h[l].av ELSE s.h[r].av
    IN Alloc(s, BinNode(kind, l, r, sparse, m))

Max(a, b) == IF a >= b THEN a ELSE b

Min(a, b) == IF a <= b THEN a ELSE b

\* the closed-form branch shared by _add_ and _sub_
EGAddSub(s, kind, left, right) ==
    LET c == IF kind = "add" THEN left.constant + right.constant
             ELSE left.constant - right.constant
        d == Max(left.degree, right.degree)
        pl == PolyAdd(left.poly, PolyRun(left.constant, left.degree, d - left.degree))
        pr == PolyAdd(right.poly, PolyRun(right.constant, right.degree, d - right.degree))
        p == IF kind = "add" THEN PolyAdd(pl, pr) ELSE PolySub(pl, pr)
    IN IF PolyIsZero(p) /\ c = 0 THEN Ret(s, ZeroId) ELSE NewEG(s, p, c, d)

\* LazyLaurentSeries._add_
SAdd(s, a, b) ==
    IF IsEG(s.h[a]) /\ IsEG(s.h[b]) THEN EGAddSub(s, "add", s.h[a], s.h[b])
    ELSE NewAddSub(s, "add", a, b)

\* == of two auxiliary nodes: the __eq__ of the unary and binary operators and
\* of the closed form; every other class compares by identity
RECURSIVE AuxEq(_, _, _)
AuxEq(h, a, b) ==
    LET x == h[a]
        y == h[b]
    IN IF x.kind \in {"scalar", "neg", "inv", "apply"}
       THEN y.kind = x.kind /\ AuxEq(h, x.left, y.left)
       ELSE IF x.kind \in {"add", "sub", "mul", "comp"}
       THEN y.kind = x.kind /\ AuxEq(h, x.left, y.left) /\ AuxEq(h, x.right, y.right)
       ELSE IF x.kind = "eg"
       THEN /\ y.kind = "eg"
            /\ x.degree = y.degree
            /\ x.poly = y.poly
            /\ x.constant = y.constant
       ELSE a = b

\* LazyLaurentSeries._sub_
SSub(s, a, b) ==
    IF IsEG(s.h[a]) /\ IsEG(s.h[b]) THEN EGAddSub(s, "sub", s.h[a], s.h[b])
    ELSE IF AuxEq(s.h, a, b) THEN Ret(s, ZeroId)
    ELSE NewAddSub(s, "sub", a, b)

\* LazyLaurentSeries._rmul_ and LLS_scalar.__init__
SRMul(s, a, c) ==
    IF c = 0 THEN Ret(s, ZeroId)
    ELSE IF c = 1 THEN Ret(s, a)
    ELSE IF IsEG(s.h[a])
         THEN NewEG(s, PolyScale(c, s.h[a].poly), c * s.h[a].constant, s.h[a].degree)
    ELSE Alloc(s, [UnNode("scalar", a, sparse, s.h[a].av) EXCEPT !.scalar = c])

\* LazyLaurentSeries._neg_ and LLS_neg.__init__
SNeg(s, a) ==
    IF IsEG(s.h[a])
    THEN NewEG(s, PolyNeg(s.h[a].poly), 0 - s.h[a].constant, s.h[a].degree)
    ELSE IF s.h[a].kind = "neg" THEN Ret(s, s.h[a].left)
    ELSE Alloc(s, UnNode("neg", a, sparse, s.h[a].av))

\* the ring's conversion P(c) of a coefficient c into a constant series
RingConst(s, c) ==
    IF c = 0 THEN Ret(s, ZeroId) ELSE NewEGNoDegree(s, PolyMono(c, 0), 0)

\* ~c in ZZ: the units invert to themselves; the inverse of another nonzero
\* integer is a fraction, which this model of ZZ does not hold
IsUnit(c) == c = 1 \/ c = 0 - 1

\* LazyLaurentSeries_inexact.valuation: the scan from the approximate valuation
RECURSIVE ValScan(_, _, _)
\* a variant that stores the index before the first nonzero coefficient
ValFoundBefore(s, id, n, c) ==
    IF c # 0 THEN Ret([s EXCEPT !.h[id].av = n - 1], n) ELSE ValScan(s, id, n + 1)

ValFound(s, id, n, c) ==
    IF c # 0 THEN Ret([s EXCEPT !.h[id].av = n], n) ELSE ValScan(s, id, n + 1)

ValScan(s, id, n) ==
    CASE n > MaxScan -> Err(s, "diverges")
      [] s.h[id].gen.st = "none" /\ n \in DOMAIN s.h[id].cache ->
            ValFound(s, id, n, s.h[id].cache[n])
      [] s.h[id].gen.st # "none" /\ n - s.h[id].offset < Len(s.h[id].cache) ->
            ValFound(s, id, n, s.h[id].cache[n - s.h[id].offset + 1])
      [] OTHER -> Bind(Get(s, id, n), LAMBDA r : ValFound(r.s, id, n, r.v))

\* valuation() of the three kinds of node; +Infinity is reported as "inf"
AuxValuation(s, id) ==
    IF IsZero(s.h[id]) THEN Err(s, "inf")
    ELSE IF IsEG(s.h[id]) THEN Ret(s, s.h[id].av)
    ELSE ValScan(s, id, s.h[id].av)

\* LLS_inv.__init__ once v = series.valuation() is known
InvOf(x, v) ==
    Bind(Get(v.s, x, v.v),
         LAMBDA c : CASE c.v = 0 -> Err(c.s, "ZeroDivisionError")
                      [] ~IsUnit(c.v) -> Err(c.s, "fraction")
                      [] OTHER -> Alloc(c.s, [UnNode("inv", x, sparse, 0 - v.v)
                                                EXCEPT !.ainv = c.v]))

\* the valuation of the zero series is +Infinity, and ~series[+Infinity] is ~0
InvOfZero(v) == IF v.err = "inf" THEN Err(v.s, "ZeroDivisionError") ELSE v

\* LLS_inv.__init__
NewInv(s, x) == Bind(InvOfZero(AuxValuation(s, x)), LAMBDA v : InvOf(x, v))

\* LazyLaurentSeries.__invert__
SInvert(s, a) ==
    IF IsEG(s.h[a]) /\ s.h[a].poly = PolyGen
    THEN NewEGNoDegree(s, PolyMono(1, 0 - 1), s.h[a].constant)
    ELSE IF s.h[a].kind = "inv" THEN Ret(s, s.h[a].left)
    ELSE NewInv(s, a)

\* LazyLaurentSeries.truncate: p = R.sum(self[i] * z**i for i in range(av, d))
RECURSIVE TruncSum(_, _, _, _, _)
TruncSum(s, a, i, d, p) ==
    IF i >= d THEN Ret(s, p)
    ELSE Bind(Get(s, a, i),
              LAMBDA r : TruncSum(r.s, a, i + 1, d, PolyAdd(p, PolyMono(r.v, i))))

\* truncate with the sum taken over range(av, d + 1)
STruncateOver(s, a, d) ==
    Bind(TruncSum(s, a, s.h[a].av, d + 1, PolyZero), LAMBDA r : NewEG(r.s, r.v, 0, d))

\* LazyLaurentSeries.truncate
STruncate(s, a, d) ==
    Bind(TruncSum(s, a, s.h[a].av, d, PolyZero), LAMBDA r : NewEG(r.s, r.v, 0, d))

\* any(aux[i] for i in range(i, hi)): v = 1 when a nonzero coefficient is found
RECURSIVE AnyNonzero(_, _, _, _)
AnyNonzero(s, id, i, hi) ==
    IF i >= hi THEN Ret(s, 0)
    ELSE Bind(Get(s, id, i),
              LAMBDA r : IF r.v # 0 THEN Ret(r.s, 1)
                         ELSE AnyNonzero(r.s, id, i + 1, hi))

\* LLS_composition.__init__: the negative powers [0, ginv, ginv^2, ...]
RECURSIVE NegPowers(_, _, _, _)
NegPowers(s, ginv, pw, k) ==
    IF k <= 0 THEN Ret(s, pw)
    ELSE Bind(NewMul(s, pw[Len(pw)], ginv),
              LAMBDA m : NegPowers(m.s, ginv, Append(pw, m.v), k - 1))

\* the composition node before its powers are attached
CompNode(s, f, g) ==
    [BinNode("comp", f, g, sparse, s.h[f].av * s.h[g].av) EXCEPT
        !.fv = s.h[f].av, !.gv = s.h[g].av, !.pos = <<g>>]

\* LLS_composition.__init__
NewComp(s, f, g) ==
    CASE ~(s.h[g].av > 0) -> Err(s, "AssertionError")
      [] s.h[f].av < 0 ->
            Bind(NewInv(s, g),
                 LAMBDA gi :
                    Bind(NegPowers(gi.s, gi.v, <<ZeroId, gi.v>>, (0 - s.h[f].av) - 1),
                         LAMBDA np : Alloc(np.s, [CompNode(s, f, g) EXCEPT !.neg = np.v])))
      [] OTHER -> Alloc(s, CompNode(s, f, g))

\* p(q) for Laurent polynomials, by Horner-free summation of p[e] * q^e; it is
\* a Laurent polynomial when p has no negative exponent or q is a unit monomial
RECURSIVE PolyPow(_, _)
PolyPow(q, e) == IF e = 0 THEN PolyOne ELSE PolyMul(q, PolyPow(q, e - 1))

PolyUnitMono(q) == Cardinality(DOMAIN q) = 1 /\ IsUnit(q[PolyValuation(q)])

PolyMonoInv(q) == PolyMono(q[PolyValuation(q)], 0 - PolyValuation(q))

RECURSIVE PolySum(_, _)
PolySum(S, f) ==
    IF S = {} THEN PolyZero
    ELSE LET x == CHOOSE y \in S : TRUE IN PolyAdd(f[x], PolySum(S \ {x}, f))

PolyComposable(p, q) == PolyValuation(p) >= 0 \/ PolyUnitMono(q)

PolyCompose(p, q) ==
    PolySum(DOMAIN p,
            [e \in DOMAIN p |->
                PolyScale(p[e], IF e >= 0 THEN PolyPow(q, e)
                                ELSE PolyPow(PolyMonoInv(q), 0 - e))])

\* __call__, f a Laurent polynomial: for i in range(deg): ret += poly[i]*gp; gp *= g
RECURSIVE CallUp(_, _, _, _, _, _)
CallUp(s, poly, g, i, rt, gp) ==
    Bind(SRMul(s, gp, PolyGet(poly, i)),
         LAMBDA t :
            Bind(SAdd(t.s, rt, t.v),
                 LAMBDA u :
                    IF i >= PolyDegree(poly) THEN u
                    ELSE Bind(SMul(u.s, gp, g),
                              LAMBDA w : CallUp(w.s, poly, g, i + 1, u.v, w.v))))

\* __call__: for i in range(-1, poly.valuation()-1, -1): gp *= gi; ret += poly[i]*gp
RECURSIVE CallDown(_, _, _, _, _, _)
CallDown(s, poly, gi, i, rt, gp) ==
    IF i < PolyValuation(poly) THEN Ret(s, rt)
    ELSE Bind(SMul(s, gp, gi),
              LAMBDA w :
                 Bind(SRMul(w.s, w.v, PolyGet(poly, i)),
                      LAMBDA t :
                         Bind(SAdd(t.s, rt, t.v),
                              LAMBDA u : CallDown(u.s, poly, gi, i - 1, u.v, w.v))))

\* __call__: ret = P.zero(); gp = P.one() and the loop up to poly.degree()
CallRise(one, poly, g) ==
    IF PolyDegree(poly) > 0 THEN CallUp(one.s, poly, g, 0, ZeroId, one.v)
    ELSE Bind(SRMul(one.s, one.v, PolyGet(poly, PolyDegree(poly))),
              LAMBDA t : SAdd(t.s, ZeroId, t.v))

\* __call__, f a Laurent polynomial and the polynomial substitution not taken
CallSum(s, poly, g) ==
    Bind(CallRise(RingConst(s, 1), poly, g),
         LAMBDA up :
            Bind(SInvert(up.s, g),
                 LAMBDA gi :
                    Bind(RingConst(gi.s, 1),
                         LAMBDA o2 : CallDown(o2.s, poly, gi.v, 0 - 1, up.v, o2.v))))

\* return P(self[0])
CallConst(s, f) == Bind(Get(s, f, 0), LAMBDA c : RingConst(c.s, c.v))

\* __call__, the case g = 0
CallZero(s, f) ==
    IF s.h[f].av >= 0 THEN CallConst(s, f)
    ELSE Bind(AnyNonzero(s, f, s.h[f].av, 0),
              LAMBDA a : IF a.v = 1 THEN Err(a.s, "ZeroDivisionError")
                         ELSE CallConst([a.s EXCEPT !.h[f].av = 0], f))

\* __call__, f not of finite length: the check of g and LLS_composition(f, g)
CallLazy(s, f, g) ==
    IF s.h[g].av <= 0
    THEN Bind(AnyNonzero(s, g, 0, s.h[f].av),
              LAMBDA a : IF a.v = 1 THEN Err(a.s, "ValueError")
                         ELSE NewComp([a.s EXCEPT !.h[g].av = 1], f, g))
    ELSE NewComp(s, f, g)

IsFinite(nd) == IsEG(nd) /\ nd.constant = 0

PolyIsConstant(p) == DOMAIN p \subseteq {0}

\* LazyLaurentSeries.__call__
SCompose(s, f, g) ==
    CASE IsZero(s.h[g]) -> CallZero(s, f)
      [] IsZero(s.h[f]) -> Ret(s, f)
      [] IsFinite(s.h[f]) /\ PolyIsConstant(s.h[f].poly) -> Ret(s, f)
      [] IsFinite(s.h[f]) /\ IsFinite(s.h[g]) /\ PolyComposable(s.h[f].poly, s.h[g].poly) ->
            NewEGNoDegree(s, PolyCompose(s.h[f].poly, s.h[g].poly), 0)
      [] IsFinite(s.h[f]) -> CallSum(s, s.h[f].poly, g)
      [] OTHER -> CallLazy(s, f, g)

\* _richcmp_ for op_EQ: the loop over the indices between the two valuations
RECURSIVE EqScan(_, _, _, _, _)
EqScan(s, a, b, i, m) ==
    IF i >= m THEN Ret(s, 1)
    ELSE Bind(Get(s, a, i),
              LAMBDA x :
                 Bind(Get(x.s, b, i),
                      LAMBDA y : IF x.v # y.v THEN Ret(y.s, 0)
                                 ELSE EqScan(y.s, a, b, i + 1, m)))

\* _richcmp_ for op_EQ once the loop found no difference
EqAux(r, a, b) ==
    CASE r.v = 0 -> r
      [] AuxEq(r.s.h, a, b) -> Ret(r.s, 1)
      [] OTHER -> Err(r.s, "undecidable")

\* LazyLaurentSeries._richcmp_ for op_EQ; v = 1 for True, 0 for False
SEq(s, a, b) ==
    CASE IsZero(s.h[a]) -> Ret(s, IF IsZero(s.h[b]) THEN 1 ELSE 0)
      [] IsZero(s.h[b]) -> Ret(s, 0)
      [] ~IsEG(s.h[a]) \/ ~IsEG(s.h[b]) ->
            Bind(EqScan(s, a, b, Min(s.h[a].av, s.h[b].av), Max(s.h[a].av, s.h[b].av)),
                 LAMBDA r : EqAux(r, a, b))
      [] OTHER -> Ret(s, IF AuxEq(s.h, a, b) THEN 1 ELSE 0)

\* define without the test of the target
SDefineAgain(s, a, e) ==
    IF s.h[a].kind # "uninit" THEN Err(s, "ValueError")
    ELSE Ret([s EXCEPT !.h[a].target = e], a)

\* LazyLaurentSeries.define
SDefine(s, a, e) ==
    IF s.h[a].kind # "uninit" \/ s.h[a].target # 0 THEN Err(s, "ValueError")
    ELSE Ret([s EXCEPT !.h[a].target = e], a)

\* the number of coefficients a node has cached
Cached(nd) == IF nd.gen.st = "none" THEN Cardinality(DOMAIN nd.cache) ELSE Len(nd.cache)

\* LazyLaurentSeries.__getitem__ for an integer index
SCoefficient(s, a, n) == Get(s, a, n)

\* LazyLaurentSeries.valuation
SValuation(s, a) == AuxValuation(s, a)

\* LazyLaurentSeries.map_coefficients on a series that is not in closed form
SMap(s, a, f) ==
    IF IsEG(s.h[a]) THEN Err(s, "UnboundLocalError")
    ELSE Alloc(s, [UnNode("apply", a, sparse, s.h[a].av) EXCEPT !.fn = f])

\* the integers from -|b| to |b|
Span(b) == ((0 - b)..b) \cup (b..(0 - b))

\* a divides b in ZZ, and the quotient b / a
Divides(a, b) == \E k \in Span(b) : a * k = b

Quotient(a, b) == CHOOSE k \in Span(b) : a * k = b

\* p / q in the Laurent polynomial ring, by division from the leading terms;
\* lo is the valuation the quotient must have.  ok is FALSE when the quotient
\* is not a Laurent polynomial
RECURSIVE PolyQuot(_, _, _, _)
PolyQuot(p, q, lo, acc) ==
    CASE PolyIsZero(p) -> [ok |-> TRUE, q |-> acc]
      [] PolyDegree(p) - PolyDegree(q) < lo -> [ok |-> FALSE, q |-> acc]
      [] ~Divides(q[PolyDegree(q)], p[PolyDegree(p)]) -> [ok |-> FALSE, q |-> acc]
      [] OTHER ->
            LET t == PolyMono(Quotient(q[PolyDegree(q)], p[PolyDegree(p)]),
                              PolyDegree(p) - PolyDegree(q))
            IN PolyQuot(PolySub(p, PolyMul(t, q)), q, lo, PolyAdd(acc, t))

\* left._laurent_polynomial / right._laurent_polynomial, for nonzero operands
PolyDiv(p, q) == PolyQuot(p, q, PolyValuation(p) - PolyValuation(q), PolyZero)

\* the lazy quotient with the divisor in place of its inverse
DivTimes(s, a, b) == NewMul(s, a, b)

\* _div_: P.element_class(P, LLS_mul(left, LLS_inv(right)))
DivLazy(s, a, b) == Bind(NewInv(s, b), LAMBDA i : NewMul(i.s, a, i.v))

\* _div_, both operands in closed form without a tail: the quotient of the
\* polynomials when it is a nonzero Laurent polynomial; a TypeError or a
\* ValueError is swallowed and the lazy quotient is built
DivClosed(s, a, b) ==
    CASE PolyIsZero(s.h[b].poly) -> Err(s, "ZeroDivisionError")
      [] PolyIsZero(s.h[a].poly) -> DivLazy(s, a, b)
      [] PolyDiv(s.h[a].poly, s.h[b].poly).ok ->
            NewEGNoDegree(s, PolyDiv(s.h[a].poly, s.h[b].poly).q, s.h[a].constant)
      [] OTHER -> DivLazy(s, a, b)

\* _div_ with the test of the dividend before the test of the divisor
SDivZeroFirst(s, a, b) ==
    CASE IsZero(s.h[a]) -> Ret(s, ZeroId)
      [] IsZero(s.h[b]) -> Err(s, "ZeroDivisionError")
      [] IsFinite(s.h[a]) /\ IsFinite(s.h[b]) -> DivClosed(s, a, b)
      [] OTHER -> DivLazy(s, a, b)

\* LazyLaurentSeries._div_
SDiv(s, a, b) ==
    CASE IsZero(s.h[b]) -> Err(s, "ZeroDivisionError")
      [] IsZero(s.h[a]) -> Ret(s, ZeroId)
      [] IsFinite(s.h[a]) /\ IsFinite(s.h[b]) -> DivClosed(s, a, b)
      [] OTHER -> DivLazy(s, a, b)

\* __bool__: for a in self._aux._cache: if a: return True.  The sparse cache
\* is a dict, whose iteration gives the indices; the dense cache is a list
CacheTruthy(nd) ==
    IF nd.gen.st = "none" THEN \E n \in DOMAIN nd.cache : n # 0
    ELSE \E i \in 1..Len(nd.cache) : nd.cache[i] # 0

\* LazyLaurentSeries.__bool__; v = 1 for True, 0 for False.  In the closed
\* form the method returns a polynomial or a coefficient, not a bool
SBool(s, a) ==
    CASE IsZero(s.h[a]) -> Ret(s, 0)
      [] IsEG(s.h[a]) -> Err(s, "TypeError")
      [] CacheTruthy(s.h[a]) -> Ret(s, 1)
      [] OTHER ->
            Bind(Get(s, a, s.h[a].av),
                 LAMBDA c : IF c.v # 0 THEN Ret(c.s, 1) ELSE Err(c.s, "undecidable"))

\* R([self[i] for i in range(lo, m)]).shift(lo)
RECURSIVE PolyList(_, _, _, _, _)
PolyList(s, a, i, m, p) ==
    IF i >= m THEN Ret(s, p)
    ELSE Bind(Get(s, a, i),
              LAMBDA c : PolyList(c.s, a, i + 1, m, PolyAdd(p, PolyMono(c.v, i))))

\* polynomial: the part after m is known; valuation() is asked twice
PolyUpTo(s, a, m) ==
    CASE IsZero(s.h[a]) -> PolyList(s, a, 0, m, PolyZero)
      [] OTHER ->
            Bind(AuxValuation(s, a),
                 LAMBDA v : IF v.v < 0 THEN PolyList(v.s, a, v.v, m, PolyZero)
                            ELSE PolyList(v.s, a, 0, m, PolyZero))

\* LazyLaurentSeries.polynomial; given says whether a degree was passed.  With
\* no degree the zero series reads the local S before it is assigned
SPolynomial(s, a, given, degree) ==
    CASE given -> PolyUpTo(s, a, degree + 1)
      [] IsZero(s.h[a]) -> Err(s, "UnboundLocalError")
      [] IsFinite(s.h[a]) -> PolyUpTo(s, a, s.h[a].degree)
      [] OTHER -> Err(s, "ValueError")

-----------------------------------------------------------------------------
(* The outcome of a public operation *)

\* low: the request was a coefficient request below the approximate valuation;
\* same: the operation left every node as it was; inf: the answer is +Infinity;
\* deep: a placeholder was read while one of its coefficients was being
\* computed, and the read was not served from its cache at a lower index
Outcome(op, a, b, r) ==
    [op |-> op, a |-> a, b |-> b,
     ok |-> r.ok \/ r.err = "inf",
     v |-> r.v,
     err |-> IF r.err = "inf" THEN "" ELSE r.err,
     inf |-> r.err = "inf",
     low |-> op = "coefficient" /\ b < heap[a].av,
     same |-> r.s.h = heap,
     deep |-> r.s.deep]

NoOutcome ==
    [op |-> "", a |-> 0, b |-> 0, ok |-> TRUE, v |-> 0, err |-> "",
     inf |-> FALSE, low |-> FALSE, same |-> TRUE, deep |-> FALSE]

NotSeen == [id |-> 0, n |-> 0, v |-> 0]

-----------------------------------------------------------------------------
(* f and g from the ring's constructor, then coefficient requests,           *)
(* valuations and compositions                                               *)

\* f(g) for  f = L(lambda n: 1), g = L(lambda n: 1);
\* f = L(lambda n: 1, 1), g = L(lambda n: 1);  f = L(lambda n: 1, 1), g = L(lambda n: n)
Pairs(sp) ==
    {<<CFNode("one", sp, 0), CFNode("one", sp, 0)>>,
     <<CFNode("one", sp, 1), CFNode("one", sp, 0)>>,
     <<CFNode("one", sp, 1), CFNode("id", sp, 0)>>}

Init ==
    /\ sparse \in BOOLEAN
    /\ \E fg \in Pairs(sparse) : heap = <<ZeroNode, fg[1], fg[2]>>
    /\ series = {1, 2, 3}
    /\ ret = NoOutcome
    /\ seen = NotSeen

\* outcomes the model does not follow: a scan that does not return, and a
\* coefficient outside ZZ
Beyond == {"diverges", "fraction"}

\* the operations that return a series
Makers ==
    {"compose", "add", "sub", "mul", "rmul", "neg", "map", "truncate", "invert", "div"}

\* an operation's effect on the heap and its outcome
Done(op, a, b, r) ==
    /\ r.err \notin Beyond
    /\ Len(r.s.h) > Len(heap) => Len(r.s.h) <= MaxHeap
    /\ (r.ok /\ op \in Makers) => Cardinality(series \cup {r.v}) <= MaxSeries
    /\ heap' = r.s.h
    /\ ret' = Outcome(op, a, b, r)
    /\ UNCHANGED sparse

\* an operation that returns a series
Made(op, a, b, r) ==
    /\ Done(op, a, b, r)
    /\ series' = IF r.ok THEN series \cup {r.v} ELSE series
    /\ UNCHANGED seen

\* a coefficient request; the caller may remember it when Keep allows
Coefficient(Keep) ==
    \E a \in series, n \in Idx, keep \in Keep :
        LET r == SCoefficient(St(heap), a, n) IN
        /\ Done("coefficient", a, n, r)
        /\ seen' = IF keep /\ r.ok /\ seen = NotSeen
                   THEN [id |-> a, n |-> n, v |-> r.v] ELSE seen
        /\ UNCHANGED series

Valuation ==
    \E a \in series :
        /\ Done("valuation", a, 0, SValuation(St(heap), a))
        /\ UNCHANGED <<series, seen>>

Compose ==
    \E f \in series, g \in series : Made("compose", f, g, SCompose(St(heap), f, g))

Next == Coefficient(BOOLEAN) \/ Valuation \/ Compose

Spec == Init /\ [][Next]_vars

\* the coefficient of a coefficient-function series as the ring built it
Built(nd, n) == IF n < nd.offset THEN 0 ELSE Fn(nd.fn, n)

\* C2: in every reachable state every node's approximate valuation is a lower
\* bound of its valuation: the node's formula gives zero at every index from
\* the valuation it was built with up to its approximate valuation
LowerBound ==
    \A id \in 1..Len(heap) :
        IsInexact(heap[id]) =>
            \A n \in heap[id].offset..(heap[id].av - 1) :
                LET r == Formula(St(heap), id, n) IN r.ok => r.v = 0

\* C3: a coefficient request for an index of a node returns the value an
\* earlier request for that index of that node returned, whatever was done
\* in between
ReturnedStays ==
    (ret.op = "coefficient" /\ ret.ok /\ seen.id = ret.a /\ seen.n = ret.b) =>
        ret.v = seen.v

\* C6: composing f(g), f not a Laurent polynomial and g with a nonzero
\* coefficient at an index <= 0, fails with the invalid-composition error,
\* builds no composition and does not promote g's approximate valuation
InvalidComposeFails ==
    (/\ ret.op = "compose"
     /\ IsInexact(heap[ret.a])
     /\ heap[ret.b].kind = "cf"
     /\ \E n \in heap[ret.b].offset..0 : Built(heap[ret.b], n) # 0)
    => (/\ ~ret.ok
        /\ ret.err = "ValueError"
        /\ heap[ret.b].av <= 0
        /\ \A id \in 1..Len(heap) : heap[id].kind = "comp" => heap[id].right # ret.b)

-----------------------------------------------------------------------------
(* A placeholder U, a series A and an expression in them, then coefficient   *)
(* requests and define calls                                                 *)

DefU == 2

\* the heap after  U = L(None)  and  A = L(lambda n: 1)  or  L(lambda n: n, 1)
\* with z and 1, and then one of  A + U,  1 + z*U,  A*U,  -A
DefHeap(sp, A, k) ==
    LET h0 == <<ZeroNode, UninitNode(sp, 0), A, EGNode(PolyGen, 0, 2), EGNode(PolyOne, 0, 1)>>
        zu == SMul(St(h0), 4, DefU)
    IN CASE k = 1 -> SAdd(St(h0), 3, DefU).s.h
         [] k = 2 -> SAdd(zu.s, 5, zu.v).s.h
         [] k = 3 -> SMul(St(h0), 3, DefU).s.h
         [] OTHER -> SNeg(St(h0), 3).s.h

DefInit ==
    /\ sparse \in BOOLEAN
    /\ \E A \in {CFNode("one", sparse, 0), CFNode("id", sparse, 1)}, k \in 1..4 :
          heap = DefHeap(sparse, A, k)
    /\ series = {DefU, 3, Len(heap)}
    /\ ret = NoOutcome
    /\ seen = NotSeen

Define ==
    \E a \in series, e \in series :
        /\ Done("define", a, e, SDefine(St(heap), a, e))
        /\ UNCHANGED <<series, seen>>

DefNext == Coefficient({FALSE}) \/ Define

SpecDefine == DefInit /\ [][DefNext]_vars

\* C4: the formula of a node is evaluated at most once for each index, and a
\* coefficient request below the approximate valuation of a node that is not
\* in closed form returns zero and leaves the cache and the generator alone
ComputedOnce ==
    /\ \A id \in 1..Len(heap) :
          \A n \in DOMAIN heap[id].nev : heap[id].nev[n] <= 1
    /\ (ret.low /\ IsInexact(heap[ret.a])) => (ret.ok /\ ret.v = 0 /\ ret.same)

ComputedOnceWitness ==
    /\ ret.low
    /\ IsInexact(heap[ret.a])
    /\ \E n \in DOMAIN heap[ret.a].nev : heap[ret.a].nev[n] = 1
    /\ \E id \in 1..Len(heap) : heap[id].kind = "uninit" /\ heap[id].nev # <<>>

\* what a step may do to the targets of the placeholders
DefineStep ==
    /\ \A id \in 1..Len(heap) :
          heap[id].target # 0 => heap'[id].target = heap[id].target
    /\ ret'.op = "define" =>
          /\ ret'.ok <=> (heap[ret'.a].kind = "uninit" /\ heap[ret'.a].target = 0)
          /\ ret'.ok => heap'[ret'.a].target = ret'.b
          /\ ~ret'.ok => (ret'.err = "ValueError" /\ heap' = heap)

\* C5: define succeeds exactly on a placeholder without a target; on a bound
\* placeholder and on any other series it fails with the already-defined
\* error and changes nothing, so a target once set never changes
DefinedOnce == [][DefineStep]_vars

DefinedOnceWitness ==
    /\ ret.op = "define" /\ ~ret.ok
    /\ heap[ret.a].kind = "uninit" /\ heap[ret.a].target # 0
    /\ heap[ret.a].target # ret.b

-----------------------------------------------------------------------------
(* Series from the ring's constructor and from scalar multiples and          *)
(* coefficient maps of them, then arithmetic, equality tests and             *)
(* coefficient requests                                                      *)

ArithM == 2

Scalars == {0, 1, 2, 3}

\* M = L(lambda n: n) with 2*M;  M with z;
\* A = L(1, constant=2, degree=3) with B = (A + z^3) - z^3
ArithHeap(sp, k) ==
    LET h0 == <<ZeroNode, CFNode("id", sp, 0)>>
        h3 == <<ZeroNode, EGNode(PolyOne, 2, 3), EGNode(PolyMono(1, 3), 0, 4)>>
        az == SAdd(St(h3), 2, 3)
    IN CASE k = 1 -> SRMul(St(h0), ArithM, 2).s.h
         [] k = 2 -> Append(h0, EGNode(PolyGen, 0, 2))
         [] OTHER -> SSub(az.s, az.v, 3).s.h

ArithInit ==
    /\ sparse \in BOOLEAN
    /\ \E k \in 1..3 : heap = ArithHeap(sparse, k)
    /\ series = {ZeroId, ArithM, Len(heap)}
    /\ ret = NoOutcome
    /\ seen = NotSeen

Add ==
    \E a \in series, b \in series : Made("add", a, b, SAdd(St(heap), a, b))

Sub ==
    \E a \in series, b \in series : Made("sub", a, b, SSub(St(heap), a, b))

Mul ==
    \E a \in series, b \in series : Made("mul", a, b, SMul(St(heap), a, b))

RMul ==
    \E a \in series, c \in Scalars : Made("rmul", a, c, SRMul(St(heap), a, c))

Neg ==
    \E a \in series : Made("neg", a, 0, SNeg(St(heap), a))

Map ==
    \E a \in series, f \in Maps : Made("map", a, f, SMap(St(heap), a, f))

Truncate ==
    \E a \in series, d \in Idx : Made("truncate", a, d, STruncate(St(heap), a, d))

Equal ==
    \E a \in series, b \in series :
        /\ Done("eq", a, b, SEq(St(heap), a, b))
        /\ UNCHANGED <<series, seen>>

ArithNext ==
    \/ Coefficient({FALSE})
    \/ Add \/ Sub \/ Mul \/ RMul \/ Neg \/ Map \/ Truncate
    \/ Equal

SpecArith == ArithInit /\ [][ArithNext]_vars

\* the answer a coefficient request would get in the current state
Coef(a, n) == SCoefficient(St(heap), a, n)

\* C7: when the equality test answers True, the two series have the same
\* coefficient at every index
EqualMeansEqual ==
    (ret.op = "eq" /\ ret.ok /\ ret.v = 1) =>
        \A n \in Idx :
            (Coef(ret.a, n).ok /\ Coef(ret.b, n).ok) =>
                Coef(ret.a, n).v = Coef(ret.b, n).v

\* the indices that tell two closed forms apart
Window(x, y) == Min(x.av, y.av)..Max(x.degree, y.degree)

\* C8: the equality test of two series in closed form answers, and answers
\* True exactly when the two have the same coefficient at every index,
\* however each is split into polynomial, degree and constant
ClosedFormEqualExact ==
    (ret.op = "eq" /\ IsEG(heap[ret.a]) /\ IsEG(heap[ret.b])) =>
        /\ ret.ok
        /\ ret.v = 1 <=>
              \A n \in Window(heap[ret.a], heap[ret.b]) :
                  EGGet(heap[ret.a], n) = EGGet(heap[ret.b], n)

\* C9: the sum and the difference of two series have, at every index, the
\* sum and the difference of their coefficients
AddSubPointwise ==
    (ret.op \in {"add", "sub"} /\ ret.ok) =>
        \A n \in Idx :
            (Coef(ret.a, n).ok /\ Coef(ret.b, n).ok /\ Coef(ret.v, n).ok) =>
                Coef(ret.v, n).v =
                    IF ret.op = "add" THEN Coef(ret.a, n).v + Coef(ret.b, n).v
                    ELSE Coef(ret.a, n).v - Coef(ret.b, n).v

\* sum over k of f[k] * g[n-k], k from f's valuation bound to n less g's
RECURSIVE Convolution(_, _, _, _)
Convolution(a, b, n, k) ==
    IF k > n - heap[b].av THEN 0
    ELSE Coef(a, k).v * Coef(b, n - k).v + Convolution(a, b, n, k + 1)

\* C10: the product of two series exists and has, at every index, the
\* convolution of their coefficients
ProductIsConvolution ==
    ret.op = "mul" =>
        /\ ret.ok
        /\ \A n \in Idx : Coef(ret.v, n).v = Convolution(ret.a, ret.b, n, heap[ret.a].av)

\* the indices at which a truncation is compared with its series
TruncIdx == (0 - MinOff - 1)..(MaxIdx + 2)

\* C14: truncate(d) gives a closed form with zero tail that agrees with the
\* series below d and is zero from d on, and truncating the result at d again
\* gives a series the equality test finds equal to it
TruncateExact ==
    ret.op = "truncate" =>
        /\ ret.ok
        /\ IsFinite(heap[ret.v])
        /\ \A n \in TruncIdx :
              Coef(ret.v, n).v = IF n < ret.b THEN Coef(ret.a, n).v ELSE 0
        /\ LET t == STruncate(St(heap), ret.v, ret.b)
           IN /\ t.ok
              /\ SEq(t.s, t.v, ret.v).ok
              /\ SEq(t.s, t.v, ret.v).v = 1

TruncateWitness ==
    /\ ret.op = "truncate" /\ ret.ok
    /\ heap[ret.a].constant # 0
    /\ ~PolyIsZero(heap[ret.v].poly)
    /\ PolyDegree(heap[ret.v].poly) < heap[ret.a].degree

\* C15: map_coefficients(func) of a series, in closed form or not, exists and
\* has func of the series' coefficient at every index
MapIsPointwise ==
    ret.op = "map" =>
        /\ ret.ok
        /\ \A n \in Idx : Coef(ret.v, n).v = MapFn(ret.b, Coef(ret.a, n).v)

-----------------------------------------------------------------------------
(* Series from the ring's constructor, then inverses, quotients, products    *)
(* and coefficient requests                                                  *)

\* largest index at which a quotient or an inverse is compared with its law
MaxQuot == 4

QuotIdx == (0 - MinOff)..MaxQuot

QuotL == 2

QuotR == 3

\* z with 1 - 2*z;  M = L(lambda n: n) with N = L(lambda n: 1);
\* z + z^2 + z^3 + ... = L(z, constant=1, degree=2) with 1
QuotHeap(sp, k) ==
    CASE k = 1 -> <<ZeroNode, EGNode(PolyGen, 0, 2),
                    EGNode(PolySub(PolyOne, PolyMono(2, 1)), 0, 2)>>
      [] k = 2 -> <<ZeroNode, CFNode("id", sp, 0), CFNode("one", sp, 0)>>
      [] OTHER -> <<ZeroNode, EGNode(PolyGen, 1, 2), EGNode(PolyOne, 0, 1)>>

QuotInit ==
    /\ sparse \in BOOLEAN
    /\ \E k \in 1..3 : heap = QuotHeap(sparse, k)
    /\ series = {ZeroId, QuotL, QuotR}
    /\ ret = NoOutcome
    /\ seen = NotSeen

Invert ==
    \E a \in series : Made("invert", a, 0, SInvert(St(heap), a))

Divide ==
    \E a \in series, b \in series : Made("div", a, b, SDiv(St(heap), a, b))

QuotNext == Coefficient({FALSE}) \/ Invert \/ Divide \/ Mul

SpecQuot == QuotInit /\ [][QuotNext]_vars

\* the lowest nonzero coefficient of a series, 0 when there is none
Lead(a) ==
    LET v == AuxValuation(St(heap), a)
    IN IF v.ok THEN Get(v.s, a, v.v).v ELSE 0

\* the series is the multiplicative identity of the ring
IsOne(nd) == IsFinite(nd) /\ nd.poly = PolyOne

\* the coefficients of series a at the indices of I are those of 1
OneOn(s, a, I) ==
    \A n \in I : Get(s, a, n).ok /\ Get(s, a, n).v = (IF n = 0 THEN 1 ELSE 0)

\* C11: the inverse of a nonzero series whose lowest nonzero coefficient is
\* invertible exists, and the product of the series and its inverse has
\* coefficient 1 at index 0 and 0 at every other index
InverseIsInverse ==
    (ret.op = "invert" /\ ~IsZero(heap[ret.a]) /\ IsUnit(Lead(ret.a))) =>
        /\ ret.ok
        /\ LET m == SMul(St(heap), ret.a, ret.v)
           IN m.ok /\ OneOn(m.s, m.v, QuotIdx)

\* C12: the quotient Q = L / R of a series by a nonzero series with an
\* invertible lowest coefficient exists and the convolution of Q and R is L at
\* every index; z / (1 - 2*z) has 0 at index 0 and 2^(k-1) at every k >= 1
QuotientTimesDivisor ==
    /\ (ret.op = "div" /\ ~IsZero(heap[ret.b]) /\ IsUnit(Lead(ret.b))) => ret.ok
    /\ (ret.op = "div" /\ ret.ok) =>
          /\ \A n \in QuotIdx :
                /\ Coef(ret.v, n).ok
                /\ Convolution(ret.v, ret.b, n, heap[ret.v].av) = Coef(ret.a, n).v
          /\ (heap[ret.a] = QuotHeap(sparse, 1)[QuotL] /\
              heap[ret.b] = QuotHeap(sparse, 1)[QuotR]) =>
                /\ Coef(ret.v, 0).v = 0
                /\ \A k \in 1..MaxQuot : Coef(ret.v, k).v = 2 ^ (k - 1)

QuotientWitness ==
    /\ ret.op = "div" /\ ret.ok
    /\ heap[ret.a] = QuotHeap(sparse, 1)[QuotL]
    /\ heap[ret.b] = QuotHeap(sparse, 1)[QuotR]
    /\ heap[ret.v].kind = "mul"
    /\ Coef(ret.v, 4).v = 8

\* C18: dividing a series by the zero series and inverting the zero series
\* fail with the division-by-zero error, return no series and leave every
\* node as it was
DivisionByZeroFails ==
    ((ret.op = "div" /\ IsZero(heap[ret.b])) \/
     (ret.op = "invert" /\ IsZero(heap[ret.a]))) =>
        /\ ~ret.ok
        /\ ret.err = "ZeroDivisionError"
        /\ ret.same

DivisionByZeroWitness ==
    /\ ret.op = "div" /\ IsZero(heap[ret.a]) /\ IsZero(heap[ret.b])
    /\ ~ret.ok
    /\ \E id \in 1..Len(heap) : IsInexact(heap[id]) /\ heap[id].nev # <<>>

\* C20: the product of a series and the multiplicative identity, on either
\* side, and the quotient of a series by the identity are the series' own
\* node, and no node is built
IdentityPassThrough ==
    /\ (ret.op = "mul" /\ IsOne(heap[ret.a])) =>
          (ret.ok /\ ret.same /\ ret.v = ret.b)
    /\ (ret.op = "mul" /\ IsOne(heap[ret.b]) /\ ~IsOne(heap[ret.a])) =>
          (ret.ok /\ ret.same /\ ret.v = ret.a)
    /\ (ret.op = "div" /\ IsOne(heap[ret.b])) =>
          (ret.ok /\ ret.same /\ ret.v = ret.a)

-----------------------------------------------------------------------------
(* A series f with terms of negative degree and a series g of valuation 1,   *)
(* then compositions and coefficient requests                                *)

\* largest index at which a composition is compared with the sum of powers
MaxSub == 2

\* largest number of nodes a composition may leave on the heap
MaxNodes == 20

SubIdx == (0 - 2 * MaxSub)..MaxSub

SubF == 2

SubG == 3

\* f = z^-1 with g = L(lambda n: 1, 1);  f = z^-2 + z + 4*z^3 with the same g;
\* f = L(lambda n: n, -2) with g = z + z^2
SubHeap(sp, k) ==
    CASE k = 1 -> <<ZeroNode, EGNode(PolyMono(1, 0 - 1), 0, 0), CFNode("one", sp, 1)>>
      [] k = 2 -> <<ZeroNode,
                    EGNode(PolyAdd(PolyMono(1, 0 - 2), PolyAdd(PolyGen, PolyMono(4, 3))), 0, 4),
                    CFNode("one", sp, 1)>>
      [] OTHER -> <<ZeroNode, CFNode("id", sp, 0 - 2),
                    EGNode(PolyAdd(PolyGen, PolyMono(1, 2)), 0, 3)>>

SubInit ==
    /\ sparse \in BOOLEAN
    /\ \E k \in 1..3 : heap = SubHeap(sparse, k)
    /\ series = {ZeroId, SubF, SubG}
    /\ ret = NoOutcome
    /\ seen = NotSeen

\* f(g) while the scenario holds at most Most series
Call(Most) ==
    \E f \in series, g \in series :
        LET r == SCompose(St(heap), f, g) IN
        /\ r.err \notin Beyond
        /\ Len(r.s.h) <= MaxNodes
        /\ r.ok => Cardinality(series \cup {r.v}) <= Most
        /\ heap' = r.s.h
        /\ ret' = Outcome("compose", f, g, r)
        /\ series' = IF r.ok THEN series \cup {r.v} ELSE series
        /\ UNCHANGED <<sparse, seen>>

Substitute == Call(MaxSeries)

SubNext == Coefficient({FALSE}) \/ Substitute

SpecSub == SubInit /\ [][SubNext]_vars

\* the coefficient of a series the ring's constructor built
Given(nd, n) == IF IsEG(nd) THEN EGGet(nd, n) ELSE Built(nd, n)

\* g^i as the ring computes it: a product of i copies of g, or of -i copies of
\* the inverse of g
RECURSIVE Power(_, _, _)
Power(s, g, i) ==
    CASE i = 0 -> RingConst(s, 1)
      [] i = 1 -> Ret(s, g)
      [] i < 0 -> Bind(SInvert(s, g), LAMBDA gi : Power(gi.s, gi.v, 0 - i))
      [] OTHER -> Bind(Power(s, g, i - 1), LAMBDA p : SMul(p.s, p.v, g))

\* (g^i)[n]
PowerCoef(g, i, n) ==
    LET p == Power(St(heap), g, i) IN Get(p.s, p.v, n).v

\* the sum of f[i] * (g^i)[n] over i from i to hi
RECURSIVE PowerSum(_, _, _, _, _)
PowerSum(f, g, n, i, hi) ==
    IF i > hi THEN 0
    ELSE Given(heap[f], i) * PowerCoef(g, i, n) + PowerSum(f, g, n, i + 1, hi)

\* C13: every coefficient of the composition f(g), g of positive valuation,
\* is the sum over i of f[i] * (g^i)[n], with g^i for negative i a power of
\* the inverse of g
CompositionIsSum ==
    (ret.op = "compose" /\ ret.a = SubF /\ ret.b = SubG) =>
        /\ ret.ok
        /\ \A n \in SubIdx :
              /\ Coef(ret.v, n).ok
              /\ Coef(ret.v, n).v = PowerSum(ret.a, ret.b, n, 0 - 2, MaxSub)

-----------------------------------------------------------------------------
(* Series from the ring's constructor and a sum, then truncations,           *)
(* valuations, truthiness tests, polynomial conversions and coefficient      *)
(* requests                                                                  *)

ShapeM == 2

\* M = L(lambda n: n) with S = M + (-M);  z with A = L(1, constant=2, degree=3)
ShapeHeap(sp, k) ==
    LET h0 == <<ZeroNode, CFNode("id", sp, 0)>>
        nm == SNeg(St(h0), ShapeM)
    IN CASE k = 1 -> SAdd(nm.s, ShapeM, nm.v).s.h
         [] OTHER -> <<ZeroNode, EGNode(PolyGen, 0, 2), EGNode(PolyOne, 2, 3)>>

ShapeInit ==
    /\ sparse \in BOOLEAN
    /\ \E k \in 1..2 : heap = ShapeHeap(sparse, k)
    /\ series = {ZeroId, ShapeM, Len(heap)}
    /\ ret = NoOutcome
    /\ seen = NotSeen

Bool ==
    \E a \in series :
        /\ Done("bool", a, 0, SBool(St(heap), a))
        /\ UNCHANGED <<series, seen>>

\* polynomial() and polynomial(degree)
Polynomial ==
    \E a \in series, given \in BOOLEAN, d \in Idx :
        /\ ~given => d = 0
        /\ Done(IF given THEN "polynomial_to" ELSE "polynomial", a, d,
                SPolynomial(St(heap), a, given, d))
        /\ UNCHANGED <<series, seen>>

ShapeNext == Coefficient({FALSE}) \/ Valuation \/ Truncate \/ Bool \/ Polynomial

SpecShape == ShapeInit /\ [][ShapeNext]_vars

\* the series is zero in closed form
ClosedZero(nd) == IsZero(nd) \/ (IsFinite(nd) /\ PolyIsZero(nd.poly))

\* C16: a finite valuation v is the index of a nonzero coefficient with only
\* zero coefficients below it, and a series that is zero in closed form has
\* valuation +Infinity
ValuationIsFirstNonzero ==
    (ret.op = "valuation" /\ ret.ok) =>
        /\ ClosedZero(heap[ret.a]) => ret.inf
        /\ ~ret.inf =>
              /\ Coef(ret.a, ret.v).v # 0
              /\ \A n \in (0 - MinOff - 1)..(ret.v - 1) : Coef(ret.a, n).v = 0

\* some cached coefficient of the node is nonzero
CachedNonzero(nd) ==
    IF nd.gen.st = "none" THEN \E n \in DOMAIN nd.cache : nd.cache[n] # 0
    ELSE \E i \in 1..Len(nd.cache) : nd.cache[i] # 0

\* C17: the truthiness test of a series that is not in closed form answers
\* True only when a cached coefficient or the coefficient at the approximate
\* valuation is nonzero, and fails as undecidable otherwise; the zero series
\* tests False
TruthNeedsEvidence ==
    /\ (ret.op = "bool" /\ IsZero(heap[ret.a])) => (ret.ok /\ ret.v = 0)
    /\ (ret.op = "bool" /\ IsInexact(heap[ret.a])) =>
          IF CachedNonzero(heap[ret.a]) \/ Coef(ret.a, heap[ret.a].av).v # 0
          THEN ret.ok /\ ret.v = 1
          ELSE ~ret.ok /\ ret.err = "undecidable"

\* C19: polynomial() without a degree gives the zero polynomial for the zero
\* series and the polynomial part for a closed form with zero tail, and fails
\* with the not-a-polynomial error for every other series
PolynomialOrNot ==
    ret.op = "polynomial" =>
        CASE IsZero(heap[ret.a]) -> ret.ok /\ ret.v = PolyZero
          [] IsFinite(heap[ret.a]) -> ret.ok /\ ret.v = heap[ret.a].poly
          [] OTHER -> ~ret.ok /\ ret.err = "ValueError"

\* C26: a coefficient request on a placeholder that no define has bound fails,
\* whatever the index, and returns no value
UnboundRequestFails ==
    (ret.op = "coefficient" /\ heap[ret.a].kind = "uninit" /\ heap[ret.a].target = 0) =>
        ~ret.ok

\* C30: a coefficient request that fails on an unbound placeholder leaves the
\* placeholder as it was, and once define(expr) has bound the placeholder a
\* coefficient request on it succeeds and returns the coefficient of expr
\* wherever expr has one
DefineAfterFailure ==
    (ret.op = "coefficient" /\ heap[ret.a].kind = "uninit") =>
        IF heap[ret.a].target = 0
        THEN ~ret.ok => ret.same
        ELSE Coef(heap[ret.a].target, ret.b).ok =>
                ret.ok /\ ret.v = Coef(heap[ret.a].target, ret.b).v

\* C27: the zero series is always the Zero node: no series the caller holds
\* is a closed form with zero polynomial and zero constant, so every
\* closed-form operation with a zero result returns the Zero node
ZeroIsZeroNode ==
    \A id \in series :
        ~(IsEG(heap[id]) /\ PolyIsZero(heap[id].poly) /\ heap[id].constant = 0)

\* the indices at which a closed-form result is compared with its operands
ClosedIdx(x, y) ==
    (Min(Min(x.av, y.av), x.av + y.av) - 1)..
        (Max(Max(x.degree, y.degree), x.degree + y.degree) + 1)

\* the result r of a closed-form operation has the coefficient Want(n) at
\* every index n of I and the tail c, and its polynomial stays below its degree
ClosedResult(r, I, Want(_), c) ==
    /\ \A n \in I : Coef(r, n).v = Want(n)
    /\ (IF IsEG(heap[r]) THEN heap[r].constant ELSE 0) = c
    /\ (IsEG(heap[r]) /\ ~PolyIsZero(heap[r].poly)) =>
            PolyDegree(heap[r].poly) < heap[r].degree

\* C28: for operands A and B in closed form, A + B, A - B, -A, c*A and, when
\* both tails are zero, A*B exist and have at every index the coefficient the
\* operator's formula gives; the tail of the result is the sum, difference,
\* negation or multiple of the tails and its polynomial has degree below its
\* degree boundary
ClosedFormArithmetic ==
    CASE ret.op \in {"add", "sub"} /\ IsEG(heap[ret.a]) /\ IsEG(heap[ret.b]) ->
            LET A == heap[ret.a]
                B == heap[ret.b]
                sign == IF ret.op = "add" THEN 1 ELSE 0 - 1
            IN ret.ok /\ ClosedResult(ret.v, ClosedIdx(A, B),
                                      LAMBDA n : EGGet(A, n) + sign * EGGet(B, n),
                                      A.constant + sign * B.constant)
      [] ret.op = "neg" /\ IsEG(heap[ret.a]) ->
            LET A == heap[ret.a]
            IN ret.ok /\ ClosedResult(ret.v, ClosedIdx(A, A),
                                      LAMBDA n : 0 - EGGet(A, n), 0 - A.constant)
      [] ret.op = "rmul" /\ IsEG(heap[ret.a]) ->
            LET A == heap[ret.a]
            IN ret.ok /\ ClosedResult(ret.v, ClosedIdx(A, A),
                                      LAMBDA n : ret.b * EGGet(A, n), ret.b * A.constant)
      [] ret.op = "mul" /\ IsEG(heap[ret.a]) /\ IsEG(heap[ret.b])
            /\ heap[ret.a].constant = 0 /\ heap[ret.b].constant = 0 ->
            ret.ok /\ ClosedResult(ret.v, ClosedIdx(heap[ret.a], heap[ret.b]),
                                   LAMBDA n : Convolution(ret.a, ret.b, n, heap[ret.a].av), 0)
      [] OTHER -> TRUE

-----------------------------------------------------------------------------
(* Pickling: loads(dumps(a)) rebuilds every object that a refers to; each    *)
(* object's __dict__ goes through __getstate__ and __setstate__              *)

\* the series an object refers to
Refs(nd) ==
    ({nd.left, nd.right, nd.target} \cup {nd.pos[i] : i \in DOMAIN nd.pos}
        \cup {nd.neg[i] : i \in DOMAIN nd.neg}) \ {0}

\* the objects that a pickle of the objects in S holds
RECURSIVE Pickled(_, _)
Pickled(h, S) ==
    LET T == S \cup UNION {Refs(h[x]) : x \in S}
    IN IF T = S THEN S ELSE Pickled(h, T)

\* where the copy of object x is allocated
Loaded(h, S, x) == IF x = 0 THEN 0 ELSE Len(h) + Cardinality({y \in S : y <= x})

\* __getstate__ drops _iter and _cache of a dense series and __setstate__
\* gives it a new generator and an empty cache; the rest of __dict__ is kept
SetState(h, S, nd) ==
    LET d == [nd EXCEPT !.left = Loaded(h, S, @), !.right = Loaded(h, S, @),
                        !.target = Loaded(h, S, @),
                        !.pos = [i \in DOMAIN @ |-> Loaded(h, S, @[i])],
                        !.neg = [i \in DOMAIN @ |-> Loaded(h, S, @[i])],
                        !.nev = <<>>]
    IN IF IsInexact(nd) /\ nd.gen.st # "none"
       THEN [d EXCEPT !.gen = FreshGen, !.cache = <<>>]
       ELSE d

\* loads(dumps(a))
SPickle(s, a) ==
    LET S == Pickled(s.h, {a})
        copy == [i \in 1..Cardinality(S) |->
                    SetState(s.h, S, s.h[CHOOSE x \in S : Loaded(s.h, S, x) = Len(s.h) + i])]
    IN Ret([s EXCEPT !.h = @ \o copy], Loaded(s.h, S, a))

-----------------------------------------------------------------------------
(* Scenario: U = L(None) with the expression z + z*U, which U is defined as  *)
(* from the start or later; requests, valuation(), U(U) and pickling follow  *)

\* the number of series the scenario holds before pickling stops
MaxLazy == 3

LazyHeap(sp, bound) ==
    LET h0 == <<ZeroNode, UninitNode(sp, 0), EGNode(PolyGen, 0, 2)>>
        zu == SMul(St(h0), 3, DefU)
        e == SAdd(zu.s, 3, zu.v)
    IN IF bound THEN SDefine(e.s, DefU, e.v).s.h ELSE e.s.h

LazyInit ==
    /\ sparse \in BOOLEAN
    /\ \E bound \in BOOLEAN : heap = LazyHeap(sparse, bound)
    /\ series = {DefU, Len(heap)}
    /\ ret = NoOutcome
    /\ seen = NotSeen

Pickle ==
    \E a \in series :
        LET r == SPickle(St(heap), a) IN
        /\ Len(r.s.h) <= MaxNodes
        /\ Cardinality(series \cup {r.v}) <= MaxLazy
        /\ heap' = r.s.h
        /\ ret' = Outcome("pickle", a, 0, r)
        /\ series' = series \cup {r.v}
        /\ UNCHANGED <<sparse, seen>>

LazyNext == Coefficient({FALSE}) \/ Valuation \/ Define \/ Call(MaxLazy) \/ Pickle

SpecLazy == LazyInit /\ [][LazyNext]_vars

\* C21: the series that pickling returns has the coefficient of the pickled
\* series at every index; a dense copy starts with an empty cache and a new
\* generator, a sparse copy with the cache of the original
PickleKeepsCoefficients ==
    ret.op = "pickle" =>
        /\ \A n \in Idx :
              /\ Coef(ret.v, n).ok = Coef(ret.a, n).ok
              /\ Coef(ret.a, n).ok => Coef(ret.v, n).v = Coef(ret.a, n).v
        /\ IsInexact(heap[ret.v]) =>
              IF sparse THEN heap[ret.v].cache = heap[ret.a].cache
              ELSE heap[ret.v].cache = <<>> /\ heap[ret.v].gen = FreshGen

\* C23: in a dense series that is not in closed form the cache is a run of
\* coefficients: entry i is the coefficient at index offset + i, and the
\* generator yields next the coefficient at index offset + len(cache), so a
\* request for n advances it n - offset + 1 - len(cache) times
DenseCacheAligned ==
    \A id \in 1..Len(heap) :
        (IsInexact(heap[id]) /\ heap[id].gen.st # "none") =>
            /\ heap[id].gen.st # "dead" =>
                  GenIndex(heap[id]) = heap[id].offset + Len(heap[id].cache)
            /\ \A i \in 1..Len(heap[id].cache) :
                  LET c == Formula(St(heap), id, heap[id].offset + i - 1)
                  IN c.ok => heap[id].cache[i] = c.v

-----------------------------------------------------------------------------
(* Scenario: M = L(lambda n: n), F = L(lambda n: 1, -1) and z*M, then one    *)
(* operator applied to them, before or after valuation()                     *)

\* how far below an approximate valuation coefficients are compared
MaxBelow == 2

RuleHeap(sp) ==
    LET h0 == <<ZeroNode, CFNode("id", sp, 0), CFNode("one", sp, 0 - 1),
                EGNode(PolyGen, 0, 2)>>
    IN SMul(St(h0), 4, 2).s.h

RuleInit ==
    /\ sparse \in BOOLEAN
    /\ heap = RuleHeap(sparse)
    /\ series = {2, 3, Len(heap)}
    /\ ret = NoOutcome
    /\ seen = NotSeen

RuleNext ==
    \/ Valuation
    \/ Add \/ Sub \/ Mul \/ RMul \/ Neg \/ Map \/ Invert \/ Substitute

SpecRule == RuleInit /\ [][RuleNext]_vars

\* the coefficient of a node at index n by the definition of its operator:
\* the function of a coefficient function, the sum of f[i] * (g^i)[n] for a
\* composition, the node's formula on its operands otherwise
ByDefinition(id, n) ==
    CASE heap[id].kind = "cf" -> Built(heap[id], n)
      [] heap[id].kind = "comp" ->
            PowerSum(heap[id].left, heap[id].right, n, heap[id].fv, MaxSub)
      [] OTHER -> Formula(St(heap), id, n).v

\* the approximate valuation of a node is a lower bound of its valuation
BoundsBelow(id) ==
    IsInexact(heap[id]) =>
        \A n \in (heap[id].av - MaxBelow)..(heap[id].av - 1) : ByDefinition(id, n) = 0

\* the approximate valuation an operator node gets from its operands
RuleOf(nd) ==
    CASE nd.kind \in {"add", "sub"} -> Min(heap[nd.left].av, heap[nd.right].av)
      [] nd.kind = "mul" -> heap[nd.left].av + heap[nd.right].av
      [] nd.kind = "inv" -> 0 - heap[nd.left].av
      [] nd.kind = "comp" -> nd.fv * nd.gv
      [] OTHER -> heap[nd.left].av

\* the node class each operation builds for series not in closed form
Operators ==
    [add |-> "add", sub |-> "sub", mul |-> "mul", rmul |-> "scalar", neg |-> "neg",
     map |-> "apply", invert |-> "inv", compose |-> "comp"]

\* C24: a new operator node gets the approximate valuation its operator's
\* rule gives, and when the approximate valuations of its operands are lower
\* bounds of their valuations, its own is a lower bound of its valuation
ValuationRule ==
    (ret.ok /\ ret.op \in DOMAIN Operators /\ ret.v = Len(heap) /\ ~ret.same
        /\ heap[ret.v].kind = Operators[ret.op]) =>
        /\ heap[ret.v].av = RuleOf(heap[ret.v])
        /\ (BoundsBelow(heap[ret.v].left) /\
            (heap[ret.v].right # 0 => BoundsBelow(heap[ret.v].right))) =>
              BoundsBelow(ret.v)

\* what a node has cached is kept: the same value at the same index
CacheKept(old, new) ==
    IF old.gen.st = "none"
    THEN \A n \in DOMAIN old.cache : n \in DOMAIN new.cache /\ new.cache[n] = old.cache[n]
    ELSE /\ Len(new.cache) >= Len(old.cache)
         /\ \A i \in 1..Len(old.cache) : new.cache[i] = old.cache[i]

MonotoneStep ==
    \A id \in 1..Len(heap) :
        /\ heap'[id].av >= heap[id].av
        /\ Cached(heap'[id]) >= Cached(heap[id])
        /\ CacheKept(heap[id], heap'[id])
        /\ heap[id].target # 0 => heap'[id].target = heap[id].target

\* C25: no operation lowers a node's approximate valuation, removes a cached
\* coefficient or replaces it by a different value, or changes a placeholder's
\* target once it is set
NodesGrowOnly == [][MonotoneStep]_vars

NodesGrowOnlyWitness ==
    /\ heap[DefU].target # 0
    /\ heap[DefU].av > heap[DefU].offset
    /\ Cached(heap[DefU]) >= 2
    /\ ret.op = "compose" /\ ret.ok

-----------------------------------------------------------------------------
(* Scenario: the same expressions built in a dense ring and in a sparse      *)
(* ring, and the same requests made of both.  heap is the dense ring's heap, *)
(* seen holds the sparse ring's heap and the sparse ring's last answer       *)

\* the heap of DefHeap built with sparse=True: no generator in any node
SparseHeap(h) ==
    [i \in DOMAIN h |-> IF IsInexact(h[i]) THEN [h[i] EXCEPT !.gen = NoGen] ELSE h[i]]

\* what the sparse ring holds after an operation returned r
Twin(r) == [h |-> r.s.h, ok |-> r.ok, v |-> r.v, err |-> r.err]

PairInit ==
    /\ sparse = FALSE
    /\ \E A \in {CFNode("one", FALSE, 0), CFNode("id", FALSE, 1)}, k \in 1..4 :
          heap = DefHeap(FALSE, A, k)
    /\ series = {DefU, 3, Len(heap)}
    /\ ret = NoOutcome
    /\ seen = Twin(Ret(St(SparseHeap(heap)), 0))

\* the same operation on the dense and on the sparse ring
Both(op, a, b, dense, other) ==
    /\ dense.err \notin Beyond /\ other.err \notin Beyond
    /\ heap' = dense.s.h
    /\ ret' = Outcome(op, a, b, dense)
    /\ seen' = Twin(other)
    /\ UNCHANGED <<sparse, series>>

PairCoefficient ==
    \E a \in series, n \in Idx :
        Both("coefficient", a, n, SCoefficient(St(heap), a, n), SCoefficient(St(seen.h), a, n))

PairValuation ==
    \E a \in series :
        Both("valuation", a, 0, SValuation(St(heap), a), SValuation(St(seen.h), a))

PairDefine ==
    \E a \in series, e \in series :
        Both("define", a, e, SDefine(St(heap), a, e), SDefine(St(seen.h), a, e))

PairNext == PairCoefficient \/ PairValuation \/ PairDefine

SpecPair == PairInit /\ [][PairNext]_vars

\* C29: the sparse and the dense strategy answer alike: after the same
\* operations on the same expression a coefficient request returns the same
\* coefficient in both
SparseDenseAgree ==
    ret.op = "coefficient" =>
        /\ ret.ok = seen.ok
        /\ ret.ok => ret.v = seen.v

-----------------------------------------------------------------------------
(* Scenario: C = L(None); C.define(1 + z*C^2), then coefficient requests     *)

CatC == 2

\* the heap after  C = L(None); C.define(1 + z*C^2)
CatHeap(sp) ==
    LET h0 == <<ZeroNode, UninitNode(sp, 0), EGNode(PolyGen, 0, 2), EGNode(PolyOne, 0, 1)>>
        c2 == SMul(St(h0), CatC, CatC)
        zc == SMul(c2.s, 3, c2.v)
        e == SAdd(zc.s, 4, zc.v)
        d == SDefine(e.s, CatC, e.v)
    IN d.s.h

\* the series the caller holds: C and the expression 1 + z*C^2
CatSeries == {CatC, Len(CatHeap(TRUE))}

CatInit ==
    /\ sparse \in BOOLEAN
    /\ heap = CatHeap(sparse)
    /\ series = CatSeries
    /\ ret = NoOutcome
    /\ seen = NotSeen

CatRequest ==
    \E id \in CatSeries, n \in 0..MaxCat :
        /\ n <= Cached(heap[CatC]) + MaxJump
        /\ LET r == SCoefficient(St(heap), id, n) IN
           /\ heap' = r.s.h
           /\ ret' = Outcome("coefficient", id, n, r)
           /\ UNCHANGED <<sparse, series, seen>>

CatNext == CatRequest

SpecCatalan == CatInit /\ [][CatNext]_vars

\* the n-th Catalan number, by C(n) = C(n-1) * 2(2n-1) / (n+1)
RECURSIVE Catalan(_)
Catalan(n) == IF n = 0 THEN 1 ELSE (Catalan(n - 1) * 2 * (2 * n - 1)) \div (n + 1)

\* C1: every coefficient request on the placeholder C bound by
\* define(1 + z*C^2) succeeds and returns the Catalan number of its index,
\* in dense and in sparse mode, whatever was requested before
CatalanCoefficients ==
    (ret.op = "coefficient" /\ ret.a = CatC) =>
        /\ ret.ok
        /\ ret.v = Catalan(ret.b)
        /\ (ret.b = 6 => ret.v = 132)
        /\ (ret.b = 10 => ret.v = 16796)

CatalanWitness ==
    /\ ret.op = "coefficient" /\ ret.a = CatC /\ ret.b = 10 /\ ret.ok
    /\ ret.v = 16796

-----------------------------------------------------------------------------
(* Scenario: placeholders bound to productive definitions, C = 1 + z*C^2 or  *)
(* the linked pair s = 1 + z*t^3, t = 1 + z*s^2, then coefficient requests   *)

\* the highest index requested of the linked series
MaxLink == 4

\* the heap after  s = L(None); t = L(None); s.define(1 + z*t^3);
\* t.define(1 + z*s^2), where s is node 2 and t is node 3
LinkHeap(sp) ==
    LET h0 == <<ZeroNode, UninitNode(sp, 0), UninitNode(sp, 0),
                EGNode(PolyGen, 0, 2), EGNode(PolyOne, 0, 1)>>
        t2 == SMul(St(h0), 3, 3)
        t3 == SMul(t2.s, t2.v, 3)
        zt == SMul(t3.s, 4, t3.v)
        e1 == SAdd(zt.s, 5, zt.v)
        s2 == SMul(e1.s, 2, 2)
        zs == SMul(s2.s, 4, s2.v)
        e2 == SAdd(zs.s, 5, zs.v)
        d1 == SDefine(e2.s, 2, e1.v)
        d2 == SDefine(d1.s, 3, e2.v)
    IN d2.s.h

LinkInit ==
    /\ sparse \in BOOLEAN
    /\ heap \in {CatHeap(sparse), LinkHeap(sparse)}
    /\ series = {id \in 1..Len(heap) : heap[id].kind = "uninit"}
    /\ ret = NoOutcome
    /\ seen = NotSeen

\* a coefficient request at most MaxJump past what the series has cached
LinkRequest ==
    \E id \in series, n \in 0..MaxLink :
        /\ n <= Cached(heap[id]) + MaxJump
        /\ LET r == SCoefficient(St(heap), id, n) IN
           /\ heap' = r.s.h
           /\ ret' = Outcome("coefficient", id, n, r)
           /\ UNCHANGED <<sparse, series, seen>>

LinkNext == LinkRequest

SpecLink == LinkInit /\ [][LinkNext]_vars

\* C22: every coefficient request on a placeholder bound to a productive
\* definition returns a value, and while coefficient n of a placeholder is
\* produced every read of that placeholder is for an index below n and is
\* served from its cache
ReadsServedFromCache == ret.op = "coefficient" => ret.ok /\ ~ret.deep

=============================================================================
